---------------------------- MODULE Spec2Model ----------------------------
(* State model of the notes application in src/notes_frontend/src/App.js:  *)
(* the note collection, the category registry, the active view, the search *)
(* query, the selection, the clock and the two persisted storage slots.    *)
(* Strings are sequences of one-character strings, so that trim(),         *)
(* toLowerCase() and includes() are computed as the code computes them.    *)
EXTENDS Integers, Sequences, FiniteSets, TLC

(***************************************************************************)
(* Bounds of the model                                                     *)
(***************************************************************************)
\* number of notes ever created (ids 1..MaxNotes)
MaxNotes == 2
\* largest value of the clock
MaxTime == 1
\* largest length of the category registry
MaxCats == 6

(***************************************************************************)
(* String literals of the source                                           *)
(***************************************************************************)
EmptyStr == << >>
AllNotes == <<"A","l","l"," ","N","o","t","e","s">>
Archive == <<"A","r","c","h","i","v","e">>
Personal == <<"P","e","r","s","o","n","a","l">>
Work == <<"W","o","r","k">>
Ideas == <<"I","d","e","a","s">>
UntitledNote == <<"U","n","t","i","t","l","e","d"," ","n","o","t","e">>

DEFAULT_CATEGORIES == <<AllNotes, Personal, Work, Ideas, Archive>>

\* the two names renameCategory and deleteCategory refuse
ProtectedNames == {AllNotes, Archive}

\* STORAGE_KEYS.NOTES and STORAGE_KEYS.CATEGORIES
NOTES == "notes_frontend__notes"
CATEGORIES == "notes_frontend__categories"
Slots == {NOTES, CATEGORIES}

\* the value of selectedNoteId when nothing is selected (null)
NoId == 0
\* getItem's result for a key that was never written (null)
Absent == <<"null">>

(***************************************************************************)
(* JavaScript string and array helpers                                     *)
(***************************************************************************)
Range(s) == {s[i] : i \in DOMAIN s}

Includes(arr, x) == \E i \in DOMAIN arr : arr[i] = x

IsSpace(c) == c = " "

RECURSIVE TrimStart(_)
TrimStart(s) ==
    IF s # << >> /\ IsSpace(Head(s)) THEN TrimStart(Tail(s)) ELSE s

RECURSIVE TrimEnd(_)
TrimEnd(s) ==
    IF s # << >> /\ IsSpace(s[Len(s)]) THEN TrimEnd(SubSeq(s, 1, Len(s) - 1)) ELSE s

Trim(s) == TrimEnd(TrimStart(s))

UpperLetters == <<"A","B","C","D","E","F","G","H","I","J","K","L","M",
                  "N","O","P","Q","R","S","T","U","V","W","X","Y","Z">>
LowerLetters == <<"a","b","c","d","e","f","g","h","i","j","k","l","m",
                  "n","o","p","q","r","s","t","u","v","w","x","y","z">>

LowerChar(c) ==
    IF \E k \in DOMAIN UpperLetters : UpperLetters[k] = c
    THEN LowerLetters[CHOOSE k \in DOMAIN UpperLetters : UpperLetters[k] = c]
    ELSE c

ToLowerCase(s) == [i \in DOMAIN s |-> LowerChar(s[i])]

\* String.prototype.includes: q occurs in s as a contiguous substring
StrIncludes(s, q) ==
    \E k \in 0..(Len(s) - Len(q)) : SubSeq(s, k + 1, k + Len(q)) = q

\* a || b on strings: the empty string is falsy
OrElse(a, b) == IF a = EmptyStr THEN b ELSE a

(***************************************************************************)
(* Data helpers                                                            *)
(***************************************************************************)
\* a createNote that stores the two clock readings the wrong way round
createNote_SwappedReads(id, title, content, category, c, u) ==
    [id |-> id, title |-> title, content |-> content, category |-> category,
     createdAt |-> u, updatedAt |-> c, archived |-> (category = Archive)]

\* createNote: the two Date.now() calls are two reads of the clock, c then u
createNote(id, title, content, category, c, u) ==
    [id |-> id, title |-> title, content |-> content, category |-> category,
     createdAt |-> c, updatedAt |-> u, archived |-> (category = Archive)]

\* sortNotesByUpdatedAtDesc(a, b) = b.updatedAt - a.updatedAt
sortNotesByUpdatedAtDesc(a, b) == b.updatedAt - a.updatedAt

\* Array.prototype.sort with a comparator: stable, x before y unless cmp(x, y) > 0
RECURSIVE InsertSorted(_, _)
InsertSorted(x, s) ==
    IF s = << >> THEN <<x>>
    ELSE IF sortNotesByUpdatedAtDesc(x, Head(s)) > 0
         THEN <<Head(s)>> \o InsertSorted(x, Tail(s))
         ELSE <<x>> \o s

RECURSIVE SortNotes(_)
SortNotes(s) ==
    IF s = << >> THEN << >>
    ELSE InsertSorted(Head(s), SortNotes(Tail(s)))

\* JSON.stringify / JSON.parse of the note array and of the category array
StringifyNote(n) ==
    <<n.id, n.title, n.content, n.category, n.createdAt, n.updatedAt, n.archived>>
ParseNote(j) ==
    [id |-> j[1], title |-> j[2], content |-> j[3], category |-> j[4],
     createdAt |-> j[5], updatedAt |-> j[6], archived |-> j[7]]
StringifyNotes(ns) ==
    <<"[">> \o [i \in DOMAIN ns |-> StringifyNote(ns[i])] \o <<"]">>
ParseNotes(j) == [i \in 1..(Len(j) - 2) |-> ParseNote(j[i + 1])]
StringifyCategories(cs) == <<"[">> \o cs \o <<"]">>
ParseCategories(j) == SubSeq(j, 2, Len(j) - 1)

(***************************************************************************)
(* Inputs the handlers are called with                                     *)
(***************************************************************************)
Home == <<"H","o","m","e">>
HomePadded == <<" ","H","o","m","e"," ">>
Blank == <<" ">>
PlanTitle == <<"P","l","a","n">>
BodyText == <<"n","o">>

\* fields of handleUpdateNote: the editor passes {title} or {content}
TitleField == [field |-> "title", value |-> PlanTitle]
ContentField == [field |-> "content", value |-> BodyText]
\* the search box: a query that trims to nothing and one in upper case
QueryInputs == {Blank, <<"N","O">>}

NoteIds == 1..MaxNotes

(***************************************************************************)
(* State                                                                   *)
(***************************************************************************)
VARIABLES
    notes,           \* useState notes: sequence of note records
    categories,      \* useState categories: sequence of names
    activeCategory,  \* useState activeCategory
    searchQuery,     \* useState searchQuery
    selectedNoteId,  \* useState selectedNoteId
    now,             \* what Date.now() returns
    nextId,          \* the next id crypto.randomUUID() hands out
    localStorage,    \* the persisted slots, by key
    failing          \* the keys for which localStorage.setItem throws

vars == <<notes, categories, activeCategory, searchQuery, selectedNoteId,
          now, nextId, localStorage, failing>>

(***************************************************************************)
(* Persistence                                                             *)
(***************************************************************************)
\* saveToStorage: setItem, a throw is swallowed and leaves the slot as it was
saveToStorage(store, key, value) ==
    IF key \in failing THEN store ELSE [store EXCEPT ![key] = value]

\* loadFromStorage: the fallback when the slot is absent
loadNotes(store) ==
    IF store[NOTES] = Absent THEN << >> ELSE ParseNotes(store[NOTES])
loadCategories(store) ==
    IF store[CATEGORIES] = Absent THEN DEFAULT_CATEGORIES
    ELSE ParseCategories(store[CATEGORIES])

\* persistence that lost the effect on [notes]
PersistEffects_CategoriesOnly(store, ns, notesSet, cs, categoriesSet) ==
    IF categoriesSet
    THEN saveToStorage(store, CATEGORIES, StringifyCategories(cs))
    ELSE store

\* the two useEffect hooks: each runs when its own state was set
PersistEffects(store, ns, notesSet, cs, categoriesSet) ==
    LET afterNotes == IF notesSet
                      THEN saveToStorage(store, NOTES, StringifyNotes(ns))
                      ELSE store
    IN  IF categoriesSet
        THEN saveToStorage(afterNotes, CATEGORIES, StringifyCategories(cs))
        ELSE afterNotes

(***************************************************************************)
(* Derived data                                                            *)
(***************************************************************************)
MatchesQuery(n, q) ==
    \/ StrIncludes(ToLowerCase(OrElse(n.title, EmptyStr)), q)
    \/ StrIncludes(ToLowerCase(OrElse(n.content, EmptyStr)), q)

\* a projector whose All Notes branch forgets the archived filter
filteredNotes_AllShowsArchived(ns, active, query) ==
    LET InArchive(n) == n.archived
        InCategory(n) == n.category = active /\ ~n.archived
        base == IF active # EmptyStr /\ active # AllNotes
                THEN IF active = Archive
                     THEN SelectSeq(ns, InArchive)
                     ELSE SelectSeq(ns, InCategory)
                ELSE ns
        Matches(n) == MatchesQuery(n, ToLowerCase(query))
        searched == IF Trim(query) # EmptyStr
                    THEN SelectSeq(base, Matches)
                    ELSE base
    IN  SortNotes(searched)

filteredNotes(ns, active, query) ==
    LET InArchive(n) == n.archived
        InCategory(n) == n.category = active /\ ~n.archived
        NotArchived(n) == ~n.archived
        base == IF active # EmptyStr /\ active # AllNotes
                THEN IF active = Archive
                     THEN SelectSeq(ns, InArchive)
                     ELSE SelectSeq(ns, InCategory)
                ELSE SelectSeq(ns, NotArchived)
        Matches(n) == MatchesQuery(n, ToLowerCase(query))
        searched == IF Trim(query) # EmptyStr
                    THEN SelectSeq(base, Matches)
                    ELSE base
    IN  SortNotes(searched)

(***************************************************************************)
(* Per-note updaters of the handlers                                       *)
(***************************************************************************)
\* handleUpdateNote: { ...n, ...fields, updatedAt: Date.now() }
UpdatedNote(n, fields, t) ==
    IF fields.field = "title"
    THEN [n EXCEPT !.title = fields.value, !.updatedAt = t]
    ELSE [n EXCEPT !.content = fields.value, !.updatedAt = t]

\* handleArchiveToggle: the object literal of the matching note
ToggledNote(n, t) ==
    [n EXCEPT !.archived = ~n.archived,
              !.category = IF ~n.archived THEN Archive
                           ELSE OrElse(n.category, Personal),
              !.updatedAt = t]

\* renameCategory: the note mapper
RenamedNote(n, oldName, trimmed) ==
    IF n.category = oldName THEN [n EXCEPT !.category = trimmed] ELSE n

\* a deleteCategory mapper that counts the reassignment as an edit
ReassignedNote_Touched(n, name) ==
    IF n.category = name
    THEN [n EXCEPT !.category = Personal, !.updatedAt = now]
    ELSE n

\* deleteCategory: the note mapper
ReassignedNote(n, name) ==
    IF n.category = name THEN [n EXCEPT !.category = Personal] ELSE n

(***************************************************************************)
(* Initial state: first start with empty storage, after the mount effects  *)
(***************************************************************************)
Init ==
    /\ notes = loadNotes([k \in Slots |-> Absent])
    /\ categories = loadCategories([k \in Slots |-> Absent])
    /\ activeCategory = AllNotes
    /\ searchQuery = EmptyStr
    /\ selectedNoteId = NoId
    /\ now = 0
    /\ nextId = 1
    /\ failing = {}
    /\ localStorage = [k \in Slots |->
                         IF k = NOTES THEN StringifyNotes(<< >>)
                         ELSE StringifyCategories(DEFAULT_CATEGORIES)]

(***************************************************************************)
(* Note actions                                                            *)
(***************************************************************************)
handleCreateNote(categoryHint, u) ==
    /\ nextId <= MaxNotes
    /\ u <= MaxTime
    /\ LET category == IF categoryHint # EmptyStr /\ categoryHint # AllNotes
                       THEN categoryHint ELSE Personal
           note == createNote(nextId, UntitledNote, EmptyStr, category, now, u)
           adds == ~Includes(categories, category) /\ category # Archive
       IN  /\ adds => Len(categories) < MaxCats
           /\ notes' = <<note>> \o notes
           /\ selectedNoteId' = note.id
           /\ categories' = IF adds THEN Append(categories, category)
                            ELSE categories
           /\ localStorage' = PersistEffects(localStorage, notes', TRUE,
                                             categories', adds)
    /\ now' = u
    /\ nextId' = nextId + 1
    /\ UNCHANGED <<activeCategory, searchQuery, failing>>

\* handleUpdateNote: the updater given to setNotes
handleUpdateNote_setNotes(prev, id, fields, t) ==
    [i \in DOMAIN prev |->
        IF prev[i].id = id THEN UpdatedNote(prev[i], fields, t) ELSE prev[i]]

handleUpdateNote(id, fields) ==
    /\ notes' = handleUpdateNote_setNotes(notes, id, fields, now)
    /\ localStorage' = PersistEffects(localStorage, notes', TRUE, categories, FALSE)
    /\ UNCHANGED <<categories, activeCategory, searchQuery, selectedNoteId,
                   now, nextId, failing>>

handleDeleteNote(id) ==
    /\ LET Keep(n) == n.id # id
       IN  notes' = SelectSeq(notes, Keep)
    /\ selectedNoteId' = IF selectedNoteId = id THEN NoId ELSE selectedNoteId
    /\ localStorage' = PersistEffects(localStorage, notes', TRUE, categories, FALSE)
    /\ UNCHANGED <<categories, activeCategory, searchQuery, now, nextId, failing>>

\* handleArchiveToggle: the updater given to setNotes
handleArchiveToggle_setNotes(prev, id, t) ==
    [i \in DOMAIN prev |->
        IF prev[i].id = id THEN ToggledNote(prev[i], t) ELSE prev[i]]

handleArchiveToggle(id) ==
    /\ notes' = handleArchiveToggle_setNotes(notes, id, now)
    /\ localStorage' = PersistEffects(localStorage, notes', TRUE, categories, FALSE)
    /\ UNCHANGED <<categories, activeCategory, searchQuery, selectedNoteId,
                   now, nextId, failing>>

(***************************************************************************)
(* Category actions                                                        *)
(***************************************************************************)
\* an addCategory that checks only for the empty name
addRejected_EmptyOnly(cats, trimmed) == trimmed = EmptyStr

\* addCategory: the two early returns
addRejected(cats, trimmed) ==
    trimmed = EmptyStr \/ Includes(cats, trimmed)

\* a renameCategory without the check for an existing name
renameRejected_NoExistingCheck(cats, oldName, trimmed) ==
    trimmed = EmptyStr \/ oldName \in ProtectedNames

\* renameCategory: the two early returns
renameRejected(cats, oldName, trimmed) ==
    \/ trimmed = EmptyStr
    \/ oldName \in ProtectedNames
    \/ Includes(cats, trimmed)

\* deleteCategory: the early return
deleteRejected(name) == name \in ProtectedNames

addCategory(name) ==
    /\ LET trimmed == Trim(name)
           rejected == addRejected(categories, trimmed)
       IN  /\ ~rejected => Len(categories) < MaxCats
           /\ categories' = IF rejected THEN categories
                            ELSE Append(categories, trimmed)
           /\ localStorage' = PersistEffects(localStorage, notes, FALSE,
                                             categories', ~rejected)
    /\ UNCHANGED <<notes, activeCategory, searchQuery, selectedNoteId,
                   now, nextId, failing>>

\* renameCategory: what setCategories, setNotes and setActiveCategory are given,
\* or the value that stays when the handler returns early
renameCategory_setCategories(cats, oldName, newName) ==
    IF renameRejected(cats, oldName, Trim(newName)) THEN cats
    ELSE [i \in DOMAIN cats |->
             IF cats[i] = oldName THEN Trim(newName) ELSE cats[i]]

renameCategory_setNotes(prev, cats, oldName, newName) ==
    IF renameRejected(cats, oldName, Trim(newName)) THEN prev
    ELSE [i \in DOMAIN prev |-> RenamedNote(prev[i], oldName, Trim(newName))]

renameCategory_setActiveCategory(prev, cats, oldName, newName) ==
    IF ~renameRejected(cats, oldName, Trim(newName)) /\ prev = oldName
    THEN Trim(newName) ELSE prev

renameCategory(oldName, newName) ==
    /\ LET rejected == renameRejected(categories, oldName, Trim(newName))
       IN  /\ categories' =
                 renameCategory_setCategories(categories, oldName, newName)
           /\ notes' =
                 renameCategory_setNotes(notes, categories, oldName, newName)
           /\ activeCategory' =
                 renameCategory_setActiveCategory(activeCategory, categories,
                                                  oldName, newName)
           /\ localStorage' = PersistEffects(localStorage, notes', ~rejected,
                                             categories', ~rejected)
    /\ UNCHANGED <<searchQuery, selectedNoteId, now, nextId, failing>>

\* deleteCategory: what setCategories, setNotes and setActiveCategory are given,
\* or the value that stays when the handler returns early
deleteCategory_setCategories(cats, name) ==
    IF deleteRejected(name) THEN cats
    ELSE LET KeepCat(c) == c # name IN SelectSeq(cats, KeepCat)

deleteCategory_setNotes(prev, name) ==
    IF deleteRejected(name) THEN prev
    ELSE [i \in DOMAIN prev |-> ReassignedNote(prev[i], name)]

deleteCategory_setActiveCategory(prev, name) ==
    IF ~deleteRejected(name) /\ prev = name THEN AllNotes ELSE prev

deleteCategory(name) ==
    /\ LET rejected == deleteRejected(name)
       IN  /\ categories' = deleteCategory_setCategories(categories, name)
           /\ notes' = deleteCategory_setNotes(notes, name)
           /\ activeCategory' =
                 deleteCategory_setActiveCategory(activeCategory, name)
           /\ localStorage' = PersistEffects(localStorage, notes', ~rejected,
                                             categories', ~rejected)
    /\ UNCHANGED <<searchQuery, selectedNoteId, now, nextId, failing>>

(***************************************************************************)
(* View actions and the environment                                        *)
(***************************************************************************)
\* onSelectCategory: a click on an entry of the sidebar
setActiveCategory(cat) ==
    /\ Includes(categories, cat)
    /\ activeCategory' = cat
    /\ UNCHANGED <<notes, categories, searchQuery, selectedNoteId, now, nextId,
                   localStorage, failing>>

\* onSearchChange
setSearchQuery(q) ==
    /\ searchQuery' = q
    /\ UNCHANGED <<notes, categories, activeCategory, selectedNoteId, now, nextId,
                   localStorage, failing>>

\* onSelectNote: a click on a card of the list that is shown
setSelectedNoteId(id) ==
    /\ \E i \in DOMAIN filteredNotes(notes, activeCategory, searchQuery) :
          filteredNotes(notes, activeCategory, searchQuery)[i].id = id
    /\ selectedNoteId' = id
    /\ UNCHANGED <<notes, categories, activeCategory, searchQuery, now, nextId,
                   localStorage, failing>>

\* time passes between two events
Tick ==
    /\ now < MaxTime
    /\ now' = now + 1
    /\ UNCHANGED <<notes, categories, activeCategory, searchQuery, selectedNoteId,
                   nextId, localStorage, failing>>

\* the storage starts or stops refusing writes of a key (quota)
StorageChanges(keys) ==
    /\ failing' = keys
    /\ failing' # failing
    /\ UNCHANGED <<notes, categories, activeCategory, searchQuery, selectedNoteId,
                   now, nextId, localStorage>>

(***************************************************************************)
(* Steps: a handler called with inputs drawn from the given sets           *)
(***************************************************************************)
\* reads: by how much the clock may advance between createNote's two reads
CreateStep(hints, reads) ==
    \E h \in hints, d \in reads : handleCreateNote(h, now + d)

UpdateStep(ids, fieldSet) ==
    \E id \in ids, f \in fieldSet : handleUpdateNote(id, f)

DeleteStep(ids) == \E id \in ids : handleDeleteNote(id)

ToggleStep(ids) == \E id \in ids : handleArchiveToggle(id)

AddCategoryStep(names) == \E name \in names : addCategory(name)

RenameCategoryStep(oldNames, newNames) ==
    \E o \in oldNames, n \in newNames : renameCategory(o, n)

DeleteCategoryStep(names) == \E name \in names : deleteCategory(name)

SelectCategoryStep == \E cat \in Range(categories) : setActiveCategory(cat)

SearchStep(queries) == \E q \in queries : setSearchQuery(q)

SelectNoteStep == \E id \in NoteIds : setSelectedNoteId(id)

StorageStep == \E keys \in SUBSET Slots : StorageChanges(keys)

(***************************************************************************)
(* SpecView: every handler, the clock standing still.  The view claims.    *)
(***************************************************************************)
NextView ==
    \/ CreateStep({activeCategory}, {0})
    \/ UpdateStep(NoteIds, {TitleField})
    \/ DeleteStep(NoteIds)
    \/ ToggleStep(NoteIds)
    \/ AddCategoryStep({HomePadded})
    \/ RenameCategoryStep({Work}, {HomePadded})
    \/ DeleteCategoryStep({Personal})
    \/ SelectCategoryStep
    \/ SearchStep(QueryInputs)

SpecView == Init /\ [][NextView]_vars

InList(n, list) == \E i \in DOMAIN list : list[i] = n

\* C1 (as stated): archiving and then unarchiving a note that is not archived and
\* carries a regular category leaves it with that category and archived = false.
C1_ToggleTwiceRestores ==
    \A i \in DOMAIN notes :
        (~notes[i].archived /\ notes[i].category \notin ProtectedNames \cup {EmptyStr})
        => LET twice == ToggledNote(ToggledNote(notes[i], now), now)
           IN  twice.category = notes[i].category /\ ~twice.archived

\* C2: in every state reached, the list projected for the active category and
\* the query typed (and for All Notes, Archive and the empty value in place of
\* the active category) holds no archived note unless the category is Archive,
\* and only archived notes under Archive.
C2_ViewRespectsArchive ==
    \A active \in {activeCategory, AllNotes, Archive, EmptyStr} :
        LET list == filteredNotes(notes, active, searchQuery)
        IN  \A i \in DOMAIN list : list[i].archived <=> (active = Archive)

\* C2 witness: an archived and a live note exist, Archive is the active view, a
\* query is typed, and the projected list is exactly the archived note.
C2_Witness ==
    /\ \E i, j \in DOMAIN notes : notes[i].archived /\ ~notes[j].archived
    /\ activeCategory = Archive
    /\ Trim(searchQuery) # EmptyStr
    /\ Len(filteredNotes(notes, activeCategory, searchQuery)) = 1

\* C3 (as stated): every note that is not archived is projected under All Notes
\* and under its own category, with an empty query.
C3_LiveNoteIsListed ==
    \A i \in DOMAIN notes :
        ~notes[i].archived
        => /\ InList(notes[i], filteredNotes(notes, AllNotes, EmptyStr))
           /\ InList(notes[i], filteredNotes(notes, notes[i].category, EmptyStr))

(***************************************************************************)
(* SpecTime: the operations that write timestamps, under a running clock   *)
(***************************************************************************)
\* categoryHint values handleCreateNote is called with under SpecTime
TimeHints == {EmptyStr, AllNotes, Archive, Home}

NextTime ==
    \/ CreateStep(TimeHints, {0, 1})
    \/ UpdateStep(NoteIds, {TitleField})
    \/ DeleteStep(NoteIds)
    \/ ToggleStep(NoteIds)
    \/ RenameCategoryStep({Personal}, {HomePadded})
    \/ DeleteCategoryStep({Home})
    \/ Tick

SpecTime == Init /\ [][NextTime]_vars

NoteWithId(ns, id) == ns[CHOOSE i \in DOMAIN ns : ns[i].id = id]
HasId(ns, id) == \E i \in DOMAIN ns : ns[i].id = id

\* C4: in every state reached each note has updatedAt >= createdAt, and
\* whatever note handleUpdateNote or handleArchiveToggle is called for now, the
\* note comes out with updatedAt = the clock and again updatedAt >= createdAt.
C4_UpdatedNotBeforeCreated ==
    /\ \A i \in DOMAIN notes : notes[i].updatedAt >= notes[i].createdAt
    /\ \A id \in NoteIds :
          HasId(notes, id)
          => LET updated == NoteWithId(handleUpdateNote_setNotes(
                                          notes, id, TitleField, now), id)
                 toggled == NoteWithId(handleArchiveToggle_setNotes(
                                          notes, id, now), id)
             IN  /\ updated.updatedAt = now /\ updated.updatedAt >= updated.createdAt
                 /\ toggled.updatedAt = now /\ toggled.updatedAt >= toggled.createdAt

\* C4 witness: an archived note that was touched after the clock moved on from
\* its creation, next to a note created in one instant.
C4_Witness ==
    \E i, j \in DOMAIN notes :
        /\ notes[i].archived /\ notes[i].updatedAt > notes[i].createdAt
        /\ notes[j].updatedAt = notes[j].createdAt /\ notes[j].createdAt > 0

\* C9 (as stated): handleCreateNote puts a new note in front of the unchanged
\* collection, with createdAt = updatedAt; hint unset or All Notes gives category
\* Personal and archived = false; hint Archive gives archived = true and never a
\* new registry entry Archive; any other hint gives that category, archived =
\* false, and the registry gains the name when it was missing.
C9_CreateResult ==
    [][ \A h \in TimeHints, d \in {0, 1} :
          handleCreateNote(h, now + d)
          => LET n == Head(notes')
             IN  /\ Tail(notes') = notes
                 /\ ~HasId(notes, n.id)
                 /\ n.createdAt = n.updatedAt
                 /\ h \in {EmptyStr, AllNotes}
                      => n.category = Personal /\ ~n.archived
                 /\ h = Archive
                      => n.archived /\ categories' = categories
                 /\ h \notin {EmptyStr, AllNotes, Archive}
                      => /\ n.category = h /\ ~n.archived
                         /\ Includes(categories', h)
                         /\ Includes(categories, h) => categories' = categories
      ]_vars

\* C7 (as stated): with a note id that is not in the collection, update, delete
\* and toggle leave the notes as they are; with a category name that is not in
\* the registry, rename and delete leave registry, notes and active view as
\* they are.
C7_UnknownIsNoOp ==
    [][ /\ \A id \in NoteIds :
              (/\ ~HasId(notes, id)
               /\ \/ handleUpdateNote(id, TitleField)
                  \/ handleDeleteNote(id)
                  \/ handleArchiveToggle(id))
              => notes' = notes
        /\ \A o \in {Personal, Home}, n \in {HomePadded} :
              (~Includes(categories, o) /\ (renameCategory(o, n) \/ deleteCategory(o)))
              => UNCHANGED <<categories, notes, activeCategory>>
      ]_vars

(***************************************************************************)
(* SpecCategories: the registry operations, with notes to cascade into     *)
(***************************************************************************)
\* name of addCategory and newName of renameCategory: blank, to be trimmed,
\* already a regular entry, already a protected entry
NewNames == {Blank, HomePadded, Work, Archive}
\* oldName of renameCategory and name of deleteCategory
OldNames == {AllNotes, Archive, Personal, Work, Home}

NextCategories ==
    \/ CreateStep({activeCategory}, {0})
    \/ AddCategoryStep(NewNames)
    \/ RenameCategoryStep(OldNames, NewNames)
    \/ DeleteCategoryStep(OldNames)
    \/ SelectCategoryStep
    \/ SelectNoteStep

SpecCategories == Init /\ [][NextCategories]_vars

\* C6: in every state reached, a renameCategory whose trimmed new name is
\* already in the registry (the old name itself and the protected names
\* included) gives back the registry, the notes and the active view as they are.
C6_RenameToExistingRejected ==
    \A o \in OldNames, n \in NewNames :
        Includes(categories, Trim(n))
        => /\ renameCategory_setCategories(categories, o, n) = categories
           /\ renameCategory_setNotes(notes, categories, o, n) = notes
           /\ renameCategory_setActiveCategory(activeCategory, categories, o, n)
                 = activeCategory

\* C6 witness: Home (the trimmed form of an input) and Work are both entries, a
\* note is filed under Work and Work is the active view: renaming Work to
\* " Home " or to "Work" has something to cascade into and is refused.
C6_Witness ==
    /\ Includes(categories, Home) /\ Includes(categories, Work)
    /\ activeCategory = Work
    /\ \E i \in DOMAIN notes : notes[i].category = Work

\* C10: the registry never holds a name twice and always holds All Notes and
\* Archive.
C10_RegistryWellFormed ==
    /\ \A i, j \in DOMAIN categories : categories[i] = categories[j] => i = j
    /\ Includes(categories, AllNotes)
    /\ Includes(categories, Archive)

\* C10 witness: the registry after an entry was renamed in place, one was
\* deleted and one was added back by a note creation: Home stands where Work
\* stood, Ideas follows it, and Personal now comes behind Archive.
C10_Witness ==
    /\ Includes(categories, Home) /\ ~Includes(categories, Work)
    /\ \E h, i, j, k \in DOMAIN categories :
          /\ categories[h] = Home /\ categories[i] = Ideas
          /\ categories[j] = Archive /\ categories[k] = Personal
          /\ h < i /\ i < j /\ j < k

(***************************************************************************)
(* SpecDelete: deleteCategory over notes of different ages and categories  *)
(***************************************************************************)
DeletedNames == {AllNotes, Archive, Personal, Work}

NextDelete ==
    \/ CreateStep({activeCategory}, {0})
    \/ ToggleStep(NoteIds)
    \/ DeleteCategoryStep(DeletedNames)
    \/ SelectCategoryStep
    \/ Tick

SpecDelete == Init /\ [][NextDelete]_vars

\* C5: in every state reached, deleteCategory of a name other than All Notes
\* and Archive removes the name from the registry (the other entries keep their
\* order), gives every note of that category the category Personal and changes
\* nothing else of any note, and moves the active view to All Notes exactly when
\* it was the deleted name; deleteCategory of All Notes or Archive changes
\* nothing.
C5_DeleteCategoryCascade ==
    \A name \in DeletedNames :
        LET cats == deleteCategory_setCategories(categories, name)
            ns == deleteCategory_setNotes(notes, name)
            active == deleteCategory_setActiveCategory(activeCategory, name)
        IN  IF name \in {AllNotes, Archive}
            THEN cats = categories /\ ns = notes /\ active = activeCategory
            ELSE /\ ~Includes(cats, name)
                 /\ \A c \in Range(categories) \ {name} : Includes(cats, c)
                 /\ \A i, j \in DOMAIN cats :
                       i < j => \E k, l \in DOMAIN categories :
                                   /\ k < l
                                   /\ categories[k] = cats[i]
                                   /\ categories[l] = cats[j]
                 /\ Len(cats) <= Len(categories)
                 /\ DOMAIN ns = DOMAIN notes
                 /\ \A i \in DOMAIN notes :
                       /\ ns[i].category =
                             IF notes[i].category = name THEN Personal
                             ELSE notes[i].category
                       /\ ns[i].id = notes[i].id
                       /\ ns[i].title = notes[i].title
                       /\ ns[i].content = notes[i].content
                       /\ ns[i].createdAt = notes[i].createdAt
                       /\ ns[i].updatedAt = notes[i].updatedAt
                       /\ ns[i].archived = notes[i].archived
                 /\ active = IF activeCategory = name THEN AllNotes
                             ELSE activeCategory

\* C5 witness: Work is gone from the registry while Personal is still there, the
\* view is back on All Notes, and two notes written before the clock moved are
\* filed under Personal, one of them archived earlier and restored.
C5_Witness ==
    /\ ~Includes(categories, Work) /\ Includes(categories, Personal)
    /\ activeCategory = AllNotes
    /\ Len(notes) = 2
    /\ \A i \in DOMAIN notes : notes[i].category = Personal /\ notes[i].updatedAt < now

(***************************************************************************)
(* SpecStorage: the mutations while the storage may refuse writes          *)
(***************************************************************************)
NextStorage ==
    \/ CreateStep({EmptyStr}, {0})
    \/ UpdateStep(NoteIds, {ContentField})
    \/ DeleteStep(NoteIds)
    \/ AddCategoryStep({HomePadded})
    \/ RenameCategoryStep({Personal}, {HomePadded})
    \/ DeleteCategoryStep({Home})
    \/ StorageStep

SpecStorage == Init /\ [][NextStorage]_vars

\* what a reload would read back from a slot equals the state in memory
InSync(key) ==
    IF key = NOTES THEN loadNotes(localStorage) = notes
    ELSE loadCategories(localStorage) = categories

\* C8 (as stated): a mutation during which the storage accepts every write leaves
\* both persisted slots equal to the state in memory.
C8_NextMutationHealsAllSlots ==
    [][ ((notes' # notes \/ categories' # categories) /\ failing = {})
        => (InSync(NOTES)' /\ InSync(CATEGORIES)')
      ]_vars

\* C8 (amended): a slot whose writes are accepted equals the state in memory after
\* every step that changes its own collection, and stays equal to it once it is;
\* a step that changes only the other collection does not write it.
C8_MutationHealsItsOwnSlot ==
    [][ \A key \in Slots :
          LET changed == IF key = NOTES THEN notes' # notes
                         ELSE categories' # categories
          IN  (key \notin failing /\ (changed \/ InSync(key)))
              => /\ InSync(key)'
                 /\ ~changed => localStorage'[key] = localStorage[key]
      ]_vars

\* C8 witness: the storage accepts writes again, the notes slot holds both notes
\* in memory (its last write succeeded), and the categories slot is still stale.
C8_Witness ==
    /\ failing = {}
    /\ Len(notes) = 2 /\ InSync(NOTES)
    /\ ~InSync(CATEGORIES)

=============================================================================
